---- MODULE Spec2Model ----
(***************************************************************************)
(* A model of the cookiecutter template-rendering pipeline:                *)
(*   - generate.py  : generate_context / apply_overwrites_to_context,      *)
(*                    generate_file(s), render_and_create_dir, hooks glue  *)
(*   - prompt.py    : prompt_for_config, render_variable                   *)
(*   - hooks.py     : find_hook, run_hook, run_script_with_context         *)
(*   - main.py      : cookiecutter()                                       *)
(*                                                                         *)
(* Three specifications share the variables:                               *)
(*   SpecContext : the Context Builder  (generate_context)                 *)
(*   SpecPrompt  : the Interactive Resolver (prompt_for_config)            *)
(*   Spec        : the Generation Engine and its caller cookiecutter()     *)
(*                                                                         *)
(* Python values are tagged records:                                       *)
(*   [t |-> "s", s |-> tokens]     a str, kept as its parsed template      *)
(*   [t |-> "n", n |-> 1]          a number                                *)
(*   [t |-> "b", b |-> TRUE]       a bool                                  *)
(*   [t |-> "l", l |-> <<...>>]    a list                                  *)
(*   [t |-> "d", ks |-> <<...>>, vs |-> [key -> value]]  an (ordered) dict *)
(* A str is the sequence of its template tokens: [lit |-> "text"] or       *)
(* [ref |-> <<"cookiecutter", "name">>, filter |-> "none"].                *)
(***************************************************************************)
EXTENDS Integers, Sequences, FiniteSets, TLC

VARIABLES
    pc,               \* position of the running operation
    exc,              \* the exception that left the operation, or "none"
    context,          \* the context dict being built / resolved / rendered
    default_context,  \* generate_context argument
    extra_context,    \* generate_context argument
    in_dictionary_variable,  \* apply_overwrites_to_context argument of a direct call
    DEFAULT_CONFIG,   \* config.py: the module-level default configuration
    config_file,      \* get_user_config argument
    default_config,   \* get_user_config argument
    environ,          \* os.environ.get("COOKIECUTTER_CONFIG")
    config_files,     \* what yaml.safe_load reads from each configuration file
    config_dict,      \* cookiecutter(): what get_user_config returned
    manifest,         \* what json.load reads from cookiecutter.json
    no_input,         \* prompt_for_config argument
    env_ok,           \* whether the extensions the context names can be loaded
    cookiecutter_dict,\* prompt_for_config: the mapping resolved so far
    idx,              \* prompt_for_config: position of the loop over the manifest
    prompted,         \* the prompts issued to the user so far
    caller,           \* "generate_files" called directly, or from "cookiecutter"
    cleanup,          \* cookiecutter(): the flag determine_repo_dir returned
    overwrite_if_exists,
    skip_if_file_exists,
    accept_hooks,
    keep_project_on_failure,
    tree,             \* the entries of repo_dir in the order os.walk yields them
    replay,           \* cookiecutter() argument
    template,         \* cookiecutter() argument: the template reference
    gf_repo_dir,      \* the repo_dir argument generate_files is called with
    replay_store,     \* replay storage: the file of the template name, if any
    wi,               \* generate_files: position of the tree walk
    project_dir,      \* generate_files: the local project_dir
    cc_project_dir,   \* cookiecutter(): the local project_dir
    dirs,             \* file system: the directories that exist
    files,            \* file system: the files that exist, with their bytes
    cwd,              \* the process working directory
    tmp_scripts,      \* the rendered hook scripts left in the temporary directory
    launched,         \* the hook scripts handed to a subprocess, and how
    pre_hook,         \* how the pre_gen_project hook step ended
    post_hook,        \* how the post_gen_project hook step ended
    written           \* the files this run of generate_files has written

cfgArgs == <<DEFAULT_CONFIG, config_file, default_config, environ, config_files>>
cfgVars == <<cfgArgs, config_dict>>
ctxArgs == <<default_context, extra_context, manifest, in_dictionary_variable>>
ctxVars == <<ctxArgs, cfgVars>>
promptVars == <<no_input, cookiecutter_dict, idx, prompted>>
callArgs == <<caller, cleanup, overwrite_if_exists, skip_if_file_exists, accept_hooks,
              keep_project_on_failure, tree, replay, template, gf_repo_dir>>
\* what generate_files leaves as it is: the arguments, the replay storage
genArgs == <<callArgs, replay_store>>
genState == <<wi, project_dir, cc_project_dir, dirs, files, cwd, tmp_scripts, launched,
              pre_hook, post_hook, written>>
genVars == <<genArgs, genState>>
vars == <<pc, exc, context, env_ok, ctxVars, promptVars, genVars>>

----------------------------------------------------------------------------
(* Python values *)

Range(f) == {f[i] : i \in DOMAIN f}

Lit(text) == [lit |-> text]
Ref(path) == [ref |-> path, filter |-> "none"]
RefF(path, flt) == [ref |-> path, filter |-> flt]

Str(tokens) == [t |-> "s", s |-> tokens]
Txt(text) == Str(<<Lit(text)>>)
Num(n) == [t |-> "n", n |-> n]
Bool(b) == [t |-> "b", b |-> b]
List(l) == [t |-> "l", l |-> l]
Dict(ks, vs) == [t |-> "d", ks |-> ks, vs |-> vs]
EmptyDict == Dict(<<>>, [k \in {} |-> Txt("")])
Dict1(k, v) == Dict(<<k>>, [x \in {k} |-> v])
Dict2(k1, v1, k2, v2) == Dict(<<k1, k2>>, [x \in {k1, k2} |-> IF x = k1 THEN v1 ELSE v2])

IsDict(v) == v.t = "d"
IsList(v) == v.t = "l"
Has(d, k) == k \in Range(d.ks)
Get(d, k) == d.vs[k]
\* d[k] = v : a new key goes to the end of the dict's order
Put(d, k, v) ==
    Dict(IF Has(d, k) THEN d.ks ELSE Append(d.ks, k),
         [x \in Range(d.ks) \cup {k} |-> IF x = k THEN v ELSE d.vs[x]])

Ok(v) == [ok |-> TRUE, v |-> v]
Raise(e) == [ok |-> FALSE, err |-> e]

None == [t |-> "none"]
\* Python truthiness of an optional dict argument: None and {} are falsy
Truthy(v) == v.t # "none" /\ (IsDict(v) => Len(v.ks) > 0)

----------------------------------------------------------------------------
(* The template engine as the code uses it: env.from_string(text) and      *)
(* template.render of the variables of a StrictEnvironment                     *)

\* str.lower() on the texts of the model
Lower(text) ==
    CASE text = "My App" -> "my app"
      [] text = "MIT" -> "mit"
      [] text = "BSD" -> "bsd"
      [] text = "Typed" -> "typed"
      [] OTHER -> text

RECURSIVE JoinDots(_)
JoinDots(path) ==
    IF Len(path) = 1 THEN path[1] ELSE path[1] \o "." \o JoinDots(Tail(path))

\* the source text of one token
TokenText(tok) ==
    IF "lit" \in DOMAIN tok THEN tok.lit
    ELSE "{{" \o JoinDots(tok.ref)
              \o (IF tok.filter = "none" THEN "" ELSE "|" \o tok.filter) \o "}}"

\* the text of a str
RECURSIVE Text(_)
Text(tokens) ==
    IF tokens = <<>> THEN "" ELSE TokenText(Head(tokens)) \o Text(Tail(tokens))

\* adjacent literal tokens are one literal, the empty literal is no token
RECURSIVE Norm(_)
Norm(tokens) ==
    IF tokens = <<>> THEN <<>>
    ELSE LET h == Head(tokens)
             r == Norm(Tail(tokens))
         IN  IF "lit" \in DOMAIN h
             THEN IF h.lit = "" THEN r
                  ELSE IF r # <<>> /\ "lit" \in DOMAIN Head(r)
                       THEN <<Lit(h.lit \o Head(r).lit)>> \o Tail(r)
                       ELSE <<h>> \o r
             ELSE <<h>> \o r

NumText(n) == CASE n = 0 -> "0" [] n = 1 -> "1" [] n = 2 -> "2" [] OTHER -> "N"

\* str(value) as the tokens of its text; a list or a dict prints as its repr
StrOf(v) ==
    CASE v.t = "s" -> v.s
      [] v.t = "n" -> <<Lit(NumText(v.n))>>
      [] v.t = "b" -> <<Lit(IF v.b THEN "True" ELSE "False")>>
      [] v.t = "l" -> <<Lit("[..]")>>
      [] v.t = "d" -> <<Lit("{..}")>>
      [] OTHER -> <<Lit("None")>>

Undefined == [t |-> "undefined"]

\* name lookup of {{ a.b.c }}: a among the variables handed to render(),
\* then item lookup in mappings; StrictUndefined where it is missing
RECURSIVE Attr(_, _)
Attr(v, path) ==
    IF path = <<>> THEN v
    ELSE IF IsDict(v) /\ Has(v, Head(path)) THEN Attr(Get(v, Head(path)), Tail(path))
    ELSE Undefined
Lookup(variables, path) == Attr(variables, path)

ApplyFilter(flt, tokens) ==
    IF flt = "lower"
    THEN [i \in DOMAIN tokens |->
            IF "lit" \in DOMAIN tokens[i] THEN Lit(Lower(tokens[i].lit)) ELSE tokens[i]]
    ELSE tokens

\* template.render of the variables: the literal tokens and the values of the
\* references, not rendered again; printing an undefined value raises
RECURSIVE RenderTokens(_, _)
RenderTokens(tokens, variables) ==
    IF tokens = <<>> THEN Ok(<<>>)
    ELSE LET h == Head(tokens)
             r == RenderTokens(Tail(tokens), variables)
         IN  IF "lit" \in DOMAIN h
             THEN IF r.ok THEN Ok(<<h>> \o r.v) ELSE r
             ELSE LET v == Lookup(variables, h.ref)
                  IN  IF v = Undefined THEN Raise("UndefinedError")
                      ELSE IF r.ok THEN Ok(ApplyFilter(h.filter, StrOf(v)) \o r.v) ELSE r

Render(tokens, variables) ==
    LET r == RenderTokens(tokens, variables)
    IN  IF r.ok THEN Ok(Str(Norm(r.v))) ELSE r

----------------------------------------------------------------------------
(* The file system. A path is the sequence of its components; dirs is the  *)
(* set of existing directories, files maps the existing files to bytes.    *)

FS(d, f) == [d |-> d, f |-> f]
IsPrefix(p, q) == Len(p) <= Len(q) /\ SubSeq(q, 1, Len(p)) = p
Prefixes(p) == {SubSeq(p, 1, n) : n \in 0..Len(p)}
Parent(p) == SubSeq(p, 1, Len(p) - 1)
\* os.path.exists
Exists(fs, p) == p \in fs.d \/ p \in DOMAIN fs.f

\* utils.make_sure_path_exists: os.makedirs(path, exist_ok=True)
make_sure_path_exists(fs, path) ==
    IF path \in DOMAIN fs.f THEN Raise("FileExistsError")
    ELSE IF \E q \in Prefixes(path) : q \in DOMAIN fs.f THEN Raise("NotADirectoryError")
    ELSE Ok(FS(fs.d \cup Prefixes(path), fs.f))

\* utils.rmtree: shutil.rmtree(path, onerror=force_delete)
rmtree(fs, path) ==
    IF path \in DOMAIN fs.f THEN Raise("NotADirectoryError")
    ELSE IF path \notin fs.d THEN Raise("FileNotFoundError")
    ELSE Ok(FS({q \in fs.d : ~IsPrefix(path, q)},
               [q \in {x \in DOMAIN fs.f : ~IsPrefix(path, x)} |-> fs.f[q]]))

\* shutil.copyfile(infile, outfile) and open(outfile, "w").write(text)
WriteFile(fs, path, bytes) ==
    IF path \in fs.d THEN Raise("IsADirectoryError")
    ELSE IF Parent(path) \notin fs.d THEN Raise("FileNotFoundError")
    ELSE Ok(FS(fs.d, [q \in DOMAIN fs.f \cup {path} |-> IF q = path THEN bytes ELSE fs.f[q]]))

\* Python's None where a path is expected, and the empty file map
NoPath == <<"<None>">>
NoFiles == [q \in {} |-> ""]
\* replay storage without a file for the template
NoReplay == [json |-> [t |-> "absent"]]

\* the value the variables of the generation engine have while it is not run
GenIdle ==
    /\ caller = "none" /\ cleanup = FALSE
    /\ overwrite_if_exists = FALSE /\ skip_if_file_exists = FALSE
    /\ accept_hooks = FALSE /\ keep_project_on_failure = FALSE
    /\ tree = <<>> /\ wi = 0 /\ project_dir = NoPath /\ cc_project_dir = NoPath
    /\ replay = FALSE /\ gf_repo_dir = NoPath /\ replay_store = NoReplay
    /\ template = None
    /\ dirs = {} /\ files = NoFiles /\ cwd = "orig" /\ tmp_scripts = 0 /\ launched = <<>>
    /\ pre_hook = "not_run" /\ post_hook = "not_run" /\ written = {}

----------------------------------------------------------------------------
(* config.py : the user configuration *)

USER_CONFIG_PATH == "~/.cookiecutterrc"
BUILTIN_ABBREVIATIONS == Dict1("gh", Txt("https://github.com/{0}.git"))
DefaultConfig ==
    Put(Put(Dict2("cookiecutters_dir", Txt("~/.cookiecutters/"),
                  "replay_dir", Txt("~/.cookiecutter_replay/")),
            "default_context", EmptyDict),
        "abbreviations", BUILTIN_ABBREVIATIONS)

\* merge_configs: a copy of default updated key by key with overwrite,
\* recursing where the value of overwrite is a dict; a value of default that
\* is not a dict has no get() and cannot be assigned into
RECURSIVE merge_configs(_, _)
merge_configs(default, overwrite) ==
    LET RECURSIVE loop(_, _)
        loop(new_config, i) ==
            IF i > Len(overwrite.ks) THEN Ok(new_config)
            ELSE IF ~IsDict(new_config)
            THEN Raise(IF IsDict(Get(overwrite, overwrite.ks[i])) THEN "AttributeError"
                       ELSE "TypeError")
            ELSE LET k == overwrite.ks[i]
                     v == Get(overwrite, k)
                     m == merge_configs(IF Has(new_config, k) THEN Get(new_config, k)
                                        ELSE EmptyDict, v)
                 IN  IF IsDict(v)
                     THEN IF m.ok THEN loop(Put(new_config, k, m.v), i + 1) ELSE m
                     ELSE loop(Put(new_config, k, v), i + 1)
    IN  loop(default, 1)

\* what a configuration file holds: nothing (no file), text that is not
\* YAML, or the value yaml.safe_load gives (None for an empty file)
NoFile == [t |-> "absent"]
BadYaml == [t |-> "invalid"]

\* get_config
get_config(cfiles, config_path) ==
    IF cfiles[config_path] = NoFile THEN Raise("ConfigDoesNotExistException")
    ELSE IF cfiles[config_path] = BadYaml THEN Raise("InvalidConfiguration")
    ELSE IF ~IsDict(cfiles[config_path]) THEN Raise("TypeError")
    ELSE Ok(Put(cfiles[config_path], "config_file", Txt(config_path)))

\* get_user_config
get_user_config(defaults, cfiles, env, cfile, dconfig) ==
    IF IsDict(dconfig) THEN merge_configs(defaults, dconfig)
    ELSE IF dconfig = Bool(TRUE) THEN Ok(defaults)
    ELSE IF cfile # None /\ cfile # Txt(USER_CONFIG_PATH) THEN get_config(cfiles, Text(cfile.s))
    ELSE IF env # None THEN get_config(cfiles, Text(env.s))
    ELSE IF cfiles[USER_CONFIG_PATH] # NoFile THEN get_config(cfiles, USER_CONFIG_PATH)
    ELSE Ok(defaults)

\* main.py, lines 72-74: config_dict = get_user_config(...); the returned
\* dict is a copy, DEFAULT_CONFIG is left as it is
GUCCall ==
    /\ pc = "guc_call"
    /\ \E r \in {get_user_config(DEFAULT_CONFIG, config_files, environ, config_file,
                                 default_config)} :
          IF r.ok THEN config_dict' = r.v /\ pc' = "guc_done" /\ exc' = exc
          ELSE config_dict' = config_dict /\ pc' = "guc_raised" /\ exc' = r.err
    /\ UNCHANGED <<context, env_ok, ctxArgs, cfgArgs, promptVars, genVars>>

\* main.py, lines 77-116: cookiecutter() reads config_dict["abbreviations"],
\* ["cookiecutters_dir"], ["default_context"] and ["replay_dir"]
ConfigKeysRead == {"abbreviations", "cookiecutters_dir", "default_context", "replay_dir"}
CCReadConfig ==
    /\ pc = "guc_done"
    /\ IF \A k \in ConfigKeysRead : Has(config_dict, k)
       THEN pc' = "guc_used" /\ exc' = exc
       ELSE pc' = "guc_raised" /\ exc' = "KeyError"
    /\ UNCHANGED <<context, env_ok, ctxVars, promptVars, genVars>>

(* Inputs of the user configuration *)
ConfigPaths == {"my.yaml", "env.yaml", USER_CONFIG_PATH}
ConfigFileContents ==
    {NoFile, BadYaml, None,
     Dict1("default_context", Dict1("d", Txt("x"))),
     Put(DefaultConfig, "replay_dir", Txt("r"))}
DefaultConfigArgs ==
    {Bool(FALSE), Bool(TRUE), EmptyDict, Dict1("replay_dir", Txt("r")),
     Dict1("abbreviations", Dict1("x", Txt("y"))), Dict1("cookiecutters_dir", EmptyDict)}

CfgIdle ==
    /\ DEFAULT_CONFIG = DefaultConfig /\ config_file = None /\ default_config = Bool(FALSE)
    /\ environ = None /\ config_files = [q \in ConfigPaths |-> NoFile]
    /\ config_dict = None

----------------------------------------------------------------------------
(* generate.py : the Context Builder *)

RECURSIVE apply_overwrites_to_context(_, _, _)

\* One iteration of the loop of apply_overwrites_to_context (the body for
\* one key, value of overwrite_context). Assigning into, or testing
\* membership and then indexing, a target that is not a dict raises
\* TypeError; extend() on a value that is not a list raises AttributeError;
\* context["cookiecutter"] of a dict without that key raises KeyError. The
\* context is modified in place: RaiseIn gives what it holds when the
\* exception leaves.
RaiseIn(e, ctx) == [ok |-> FALSE, err |-> e, v |-> ctx]
apply_overwrite(ctx, key, value, in_dict_var) ==
    IF IsDict(value) THEN
        IF ~IsDict(ctx) THEN RaiseIn("TypeError", ctx)
        ELSE LET c1 == IF Has(ctx, key) THEN ctx ELSE Put(ctx, key, EmptyDict)
                 r  == apply_overwrites_to_context(Get(c1, key), value, TRUE)
             IN  IF r.ok THEN Ok(Put(c1, key, r.v)) ELSE RaiseIn(r.err, Put(c1, key, r.v))
    ELSE IF IsList(value) THEN
        IF ~IsDict(ctx) THEN RaiseIn("TypeError", ctx)
        ELSE LET c1 == IF Has(ctx, key) THEN ctx ELSE Put(ctx, key, List(<<>>))
             IN  IF IsList(Get(c1, key))
                 THEN Ok(Put(c1, key, List(Get(c1, key).l \o value.l)))
                 ELSE RaiseIn("AttributeError", c1)
    ELSE
        IF in_dict_var THEN
            IF ~IsDict(ctx) THEN RaiseIn("TypeError", ctx) ELSE Ok(Put(ctx, key, value))
        ELSE IF ~IsDict(ctx) THEN RaiseIn("TypeError", ctx)
        ELSE IF ~Has(ctx, "cookiecutter") THEN RaiseIn("KeyError", ctx)
        ELSE IF ~IsDict(Get(ctx, "cookiecutter")) THEN RaiseIn("TypeError", ctx)
        ELSE Ok(Put(ctx, "cookiecutter", Put(Get(ctx, "cookiecutter"), key, value)))

\* Modify the context by the overwrite_context, key by key in its order;
\* the first exception ends the loop.
apply_overwrites_to_context(ctx, overwrite_context, in_dict_var) ==
    LET RECURSIVE loop(_, _)
        loop(c, i) ==
            IF i > Len(overwrite_context.ks) THEN Ok(c)
            ELSE LET k == overwrite_context.ks[i]
                     r == apply_overwrite(c, k, Get(overwrite_context, k), in_dict_var)
                 IN  IF r.ok THEN loop(r.v, i + 1) ELSE r
    IN  loop(ctx, 1)

\* generate_context, lines 86-94: load the manifest file
GCLoad ==
    /\ pc = "gc_load"
    /\ IF manifest.valid
       THEN /\ context' = Dict1("cookiecutter", manifest.obj)
            /\ pc' = "gc_defaults"
            /\ exc' = exc
       ELSE /\ exc' = "ContextDecodingException"
            /\ pc' = "gc_raised"
            /\ context' = context
    /\ UNCHANGED <<ctxVars, env_ok, promptVars, genVars>>

\* lines 96-98 (which = "gc_defaults") and 100-102 (which = "gc_extra")
GCApply(which, overwrite, next) ==
    /\ pc = which
    /\ IF Truthy(overwrite)
       THEN LET r == apply_overwrites_to_context(context, overwrite, FALSE)
            IN  IF r.ok
                THEN context' = r.v /\ pc' = next /\ exc' = exc
                ELSE exc' = r.err /\ pc' = "gc_raised" /\ context' = context
       ELSE context' = context /\ pc' = next /\ exc' = exc
    /\ UNCHANGED <<ctxVars, env_ok, promptVars, genVars>>

GCApplyDefaults == GCApply("gc_defaults", default_context, "gc_extra")

\* the slip of passing default_context a second time
GCApplyExtra_defaults_again == GCApply("gc_extra", default_context, "gc_return")
GCApplyExtra == GCApply("gc_extra", extra_context, "gc_return")

\* line 104
GCReturn ==
    /\ pc = "gc_return"
    /\ pc' = "gc_done"
    /\ UNCHANGED <<exc, context, ctxVars, env_ok, promptVars, genVars>>

(* Inputs of the Context Builder *)
MaxListLen == 2

ScalarVals == {Txt("x"), Txt("y")}
ListVals == {List(l) : l \in UNION {[1..n -> ScalarVals] : n \in 1..MaxListLen}}
FlatDicts == {Dict1("p", s) : s \in ScalarVals} \cup {Dict1("q", s) : s \in ScalarVals}
             \cup {Dict2("p", s, "q", Txt("x")) : s \in ScalarVals}
NestedDicts == {Dict1("p", Dict1("r", s)) : s \in ScalarVals}
               \cup {Dict2("p", Dict2("r", s, "s", Txt("x")), "q", Txt("x")) : s \in ScalarVals}
Absent == [t |-> "absent"]
\* the dict with key "a" (unless va is Absent) then key "b" (unless vb is Absent)
DictAB(va, vb) ==
    LET d1 == IF va = Absent THEN EmptyDict ELSE Put(EmptyDict, "a", va)
    IN  IF vb = Absent THEN d1 ELSE Put(d1, "b", vb)
ManifestObjs ==
    {DictAB(va, vb) : va \in {Absent} \cup ScalarVals \cup ListVals \cup FlatDicts \cup NestedDicts,
                      vb \in {Absent, Txt("x")}}
Overrides ==
    {None} \cup
    {DictAB(va, vb) : va \in {Absent} \cup ScalarVals \cup ListVals \cup FlatDicts \cup NestedDicts,
                      vb \in {Absent, Txt("y")}}

InitContext ==
    /\ pc = "gc_load"
    /\ exc = "none"
    /\ context = None
    /\ manifest \in {[valid |-> TRUE, obj |-> o] : o \in ManifestObjs}
                    \cup {[valid |-> FALSE, obj |-> EmptyDict]}
    /\ CfgIdle /\ in_dictionary_variable = FALSE /\ default_context \in Overrides
    /\ extra_context \in Overrides
    /\ no_input = FALSE /\ env_ok = TRUE /\ cookiecutter_dict = None
    /\ idx = 0 /\ prompted = <<>>
    /\ GenIdle

NextContext == GCLoad \/ GCApplyDefaults \/ GCApplyExtra \/ GCReturn

SpecContext == InitContext /\ [][NextContext]_vars

(* A direct call of apply_overwrites_to_context *)

\* apply_overwrites_to_context(context, extra_context,
\* in_dictionary_variable=in_dictionary_variable): the context is modified
\* in place, also when an exception leaves the call
AOCall ==
    /\ pc = "aoc_call"
    /\ \E r \in {apply_overwrites_to_context(context, extra_context, in_dictionary_variable)} :
          /\ context' = r.v
          /\ IF r.ok THEN pc' = "aoc_done" /\ exc' = exc
             ELSE pc' = "aoc_raised" /\ exc' = r.err
    /\ UNCHANGED <<ctxVars, env_ok, promptVars, genVars>>

Shapes(s) == {Txt(s), List(<<Txt(s)>>), Dict1("p", Txt(s)), Dict1("p", List(<<Txt(s)>>))}
ApplyBases ==
    {Dict1("cookiecutter", Dict1("a", x)) : x \in Shapes("x")}
    \cup {Dict2("cookiecutter", Dict1("a", x), "a", y) : x \in Shapes("x"), y \in Shapes("x")}
ApplyOverrides ==
    {DictAB(va, vb) : va \in Shapes("y"), vb \in {Absent, Txt("y")}}

InitApply ==
    /\ pc = "aoc_call"
    /\ exc = "none"
    /\ context \in ApplyBases
    /\ extra_context \in ApplyOverrides
    /\ in_dictionary_variable \in BOOLEAN
    /\ CfgIdle
    /\ default_context = None
    /\ manifest = [valid |-> TRUE, obj |-> EmptyDict]
    /\ no_input = FALSE /\ env_ok = TRUE /\ cookiecutter_dict = None
    /\ idx = 0 /\ prompted = <<>>
    /\ GenIdle

NextApply == AOCall

SpecApply == InitApply /\ [][NextApply]_vars

----------------------------------------------------------------------------
(* prompt.py : the Interactive Resolver *)

\* key.startswith("_") on the keys of the model
MetaKeys == {"_copy_without_render", "_extensions", "_templates", "_template"}
IsMetaKey(key) == key \in MetaKeys

\* what the user may type at a free-text prompt, and at a JSON prompt
UserTexts == {Txt("Typed")}
UserDicts == {Dict1("k", Txt("x"))}

\* an outcome of a call that may prompt: its result and the prompts it issued
Out(r, asked) == [r |-> r, asked |-> asked]
Asked(key, kind) == <<[key |-> key, kind |-> kind]>>

\* render_variable: from_string accepts a str only (TypeError otherwise);
\* the template is rendered with the resolved variables as keyword
\* arguments, i.e. each resolved key is a top-level template variable
render_variable(raw, variables) ==
    IF raw.t # "s" THEN Raise("TypeError")
    ELSE LET r == Render(raw.s, variables)
         IN  IF r.ok THEN r ELSE Raise("UndefinedVariableInTemplate")

\* read_user_variable: Prompt.ask with default str(default_value)
read_user_variable(key, default_value) ==
    {Out(Ok(v), Asked(key, "text")) : v \in {Str(StrOf(default_value))} \cup UserTexts}

\* read_user_yes_no
read_user_yes_no(key, default_value) ==
    {Out(Ok(Bool(b)), Asked(key, "yes_no")) : b \in BOOLEAN}

\* read_user_choice: choices[0] of an empty list raises before the prompt
read_user_choice(key, options) ==
    IF options = <<>> THEN {Out(Raise("IndexError"), <<>>)}
    ELSE {Out(Ok(Str(StrOf(options[i]))), Asked(key, "choice")) : i \in DOMAIN options}

\* read_user_dict: the default, returned as it is, is the JSON text
read_user_dict(key, default_value) ==
    {Out(Ok(v), Asked(key, "json")) : v \in {Txt("{}")} \cup UserDicts}

\* prompt_choice_for_template
prompt_choice_for_template(key, options, noinput) ==
    IF noinput
    THEN {Out(IF options.ks = <<>> THEN Raise("StopIteration") ELSE Ok(Txt(options.ks[1])), <<>>)}
    ELSE read_user_choice(key, [i \in DOMAIN options.ks |-> Txt(options.ks[i])])

\* prompt_choice_for_config
prompt_choice_for_config(variables, key, options, noinput) ==
    IF noinput
    THEN {Out(IF options = <<>> THEN Raise("IndexError") ELSE Ok(options[1]), <<>>)}
    ELSE LET rs  == [i \in DOMAIN options |-> render_variable(options[i], variables)]
             bad == {i \in DOMAIN options : ~rs[i].ok}
         IN  IF bad # {}
             THEN {Out(rs[CHOOSE i \in bad : \A j \in bad : i <= j], <<>>)}
             ELSE read_user_choice(key, [i \in DOMAIN options |-> rs[i].v])

\* lines 244-257 of prompt_for_config: the value before the prompt
pfc_first(key, raw, variables, noinput) ==
    IF IsList(raw) THEN prompt_choice_for_config(variables, key, raw.l, noinput)
    ELSE IF IsDict(raw) THEN prompt_choice_for_template(key, raw, noinput)
    ELSE {Out(render_variable(raw, variables), <<>>)}

\* lines 259-265 of prompt_for_config: the prompt for the value
pfc_second(key, raw, o, noinput) ==
    IF ~o.r.ok \/ noinput THEN {o}
    ELSE LET again == IF raw.t = "b" THEN read_user_yes_no(key, o.r.v)
                      ELSE IF IsDict(raw) THEN read_user_dict(key, EmptyDict)
                      ELSE read_user_variable(key, o.r.v)
         IN  {Out(a.r, o.asked \o a.asked) : a \in again}

PFCKey == Get(context, "cookiecutter").ks[idx]
PFCRaw == Get(Get(context, "cookiecutter"), PFCKey)

\* prompt_for_config, lines 236-237
PFCStart ==
    /\ pc = "pfc_start"
    /\ IF env_ok
       THEN pc' = "pfc_loop" /\ cookiecutter_dict' = EmptyDict /\ idx' = 1 /\ exc' = exc
       ELSE pc' = "pfc_raised" /\ exc' = "UnknownExtension"
            /\ UNCHANGED <<cookiecutter_dict, idx>>
    /\ UNCHANGED <<context, env_ok, ctxVars, no_input, prompted, genVars>>

\* one iteration of the loop, lines 240-242: a metadata key passes through
PFCMeta ==
    /\ pc = "pfc_loop" /\ idx <= Len(Get(context, "cookiecutter").ks)
    /\ IsMetaKey(PFCKey)
    /\ cookiecutter_dict' = Put(cookiecutter_dict, PFCKey, PFCRaw)
    /\ idx' = idx + 1
    /\ UNCHANGED <<pc, exc, context, env_ok, ctxVars, no_input, prompted, genVars>>

\* one iteration of the loop, lines 244-267
PFCResolve ==
    /\ pc = "pfc_loop" /\ idx <= Len(Get(context, "cookiecutter").ks)
    /\ ~IsMetaKey(PFCKey)
    /\ \E o1 \in pfc_first(PFCKey, PFCRaw, cookiecutter_dict, no_input) :
       \E o2 \in pfc_second(PFCKey, PFCRaw, o1, no_input) :
          /\ prompted' = prompted \o o2.asked
          /\ IF o2.r.ok
             THEN /\ cookiecutter_dict' = Put(cookiecutter_dict, PFCKey, o2.r.v)
                  /\ idx' = idx + 1
                  /\ UNCHANGED <<pc, exc>>
             ELSE /\ pc' = "pfc_raised" /\ exc' = o2.r.err
                  /\ UNCHANGED <<cookiecutter_dict, idx>>
    /\ UNCHANGED <<context, env_ok, ctxVars, no_input, genVars>>

\* line 269
PFCReturn ==
    /\ pc = "pfc_loop" /\ idx > Len(Get(context, "cookiecutter").ks)
    /\ pc' = "pfc_done"
    /\ UNCHANGED <<exc, context, env_ok, ctxVars, promptVars, genVars>>

(* Inputs of the Interactive Resolver *)
MaxVars == 3

ccRef(name) == Ref(<<"cookiecutter", name>>)
PromptEntries ==
    {<<"project_name", r>> : r \in {Txt("My App"), Num(1), Bool(TRUE)}}
    \cup {<<"slug", r>> : r \in {Str(<<RefF(<<"cookiecutter", "project_name">>, "lower")>>),
                                 Str(<<Lit("pre-"), RefF(<<"project_name">>, "lower")>>),
                                 Str(<<ccRef("license")>>),
                                 Txt("app")}}
    \cup {<<"license", r>> : r \in {Txt("MIT"),
                                    List(<<Txt("MIT"), Txt("BSD")>>),
                                    List(<<Str(<<Ref(<<"project_name">>)>>), Txt("BSD")>>),
                                    Dict2("py", Dict1("_prompt", Txt("Python")), "go", EmptyDict)}}
    \cup {<<"_copy_without_render", List(<<Txt("*.bin")>>)>>}
RECURSIVE DictOfEntries(_)
DictOfEntries(es) ==
    IF es = <<>> THEN EmptyDict
    ELSE Put(DictOfEntries(SubSeq(es, 1, Len(es) - 1)), es[Len(es)][1], es[Len(es)][2])
PromptManifests ==
    {DictOfEntries(es) : es \in UNION {
        {m \in [1..n -> PromptEntries] : \A i, j \in 1..n : i # j => m[i][1] # m[j][1]}
        : n \in 1..MaxVars}}

InitPrompt ==
    /\ pc = "pfc_start"
    /\ exc = "none"
    /\ context \in {Dict1("cookiecutter", m) : m \in PromptManifests}
    /\ no_input \in BOOLEAN
    /\ env_ok \in BOOLEAN
    /\ cookiecutter_dict = None
    /\ idx = 0
    /\ prompted = <<>>
    /\ manifest = [valid |-> TRUE, obj |-> EmptyDict]
    /\ CfgIdle /\ in_dictionary_variable = FALSE /\ default_context = None
    /\ extra_context = None
    /\ GenIdle

NextPrompt == PFCStart \/ PFCMeta \/ PFCResolve \/ PFCReturn

SpecPrompt == InitPrompt /\ [][NextPrompt]_vars

----------------------------------------------------------------------------
(* generate.py, hooks.py : the Generation Engine and the Hook Runner *)

\* an entry of the template tree: a directory or a file of repo_dir, at the
\* directory root (the unrendered names of its ancestors); hook names the
\* hook a file of hooks/ is valid for
DirE(root, name) ==
    [kind |-> "dir", root |-> root, name |-> name, ext |-> "", content |-> <<>>, hook |-> "none"]
FileE(root, name, ext, content) ==
    [kind |-> "file", root |-> root, name |-> name, ext |-> ext, content |-> content, hook |-> "none"]
HookE(hook, ext, content) ==
    [kind |-> "file", root |-> <<<<Lit("hooks")>>>>, name |-> <<Lit(hook)>>, ext |-> ext,
     content |-> content, hook |-> hook]

\* a result with the file system it leaves behind
Res(v, fs) == [ok |-> TRUE, err |-> "none", v |-> v, fs |-> fs]
Fail(e, fs) == [ok |-> FALSE, err |-> e, v |-> NoPath, fs |-> fs]

CurFS == FS(dirs, files)

\* the slip of restoring the directory without a finally clause, and
\* utils.work_in: the working directory when the with block is left, entered
\* from curdir and ended by an exception or not
work_in_without_finally(curdir, dirname, raised) == IF raised THEN dirname ELSE curdir
work_in(curdir, dirname, raised) == curdir
\* where an exception of generate_files goes
RaisedPc == IF caller = "cookiecutter" THEN "cc_except" ELSE "raised"

\* the default output_dir argument, as a path
OutputDir == <<"out">>
\* the directory the template is in
RepoDir == <<"repo">>

\* a template reference that is a name relative to the directory of the
\* templates, and the one that is the absolute path of RepoDir
TemplateName == Txt("proj")
RepoDirText == "/repo"

\* the components of a rendered relative path text; "" adds no component
PathParts(text) == IF text = "" THEN <<>> ELSE <<text>>
\* os.path.join(base, text): an absolute text replaces base
path_join(base, text) == IF text = RepoDirText THEN RepoDir ELSE base \o PathParts(text)

WithExt(text, ext) == IF ext = "" THEN text ELSE text \o "." \o ext

\* env.from_string(infile).render of the context, for the path whose
\* components are the templates names: the rendered components
RECURSIVE RenderComps(_, _)
RenderComps(names, variables) ==
    IF names = <<>> THEN Ok(<<>>)
    ELSE LET h == Render(Head(names), variables)
             r == RenderComps(Tail(names), variables)
         IN  IF ~h.ok THEN h
             ELSE IF ~r.ok THEN r
             ELSE Ok(PathParts(Text(h.v.s)) \o r.v)

\* the name of an entry with its extension, rendered
RenderInfile(e, variables) ==
    LET r == RenderComps(e.root \o <<e.name>>, variables)
    IN  IF ~r.ok THEN r
        ELSE Ok(SubSeq(r.v, 1, Len(r.v) - 1) \o <<WithExt(r.v[Len(r.v)], e.ext)>>)

\* the unrendered text of the components of a root
UnrenderedRoot(root) == [i \in DOMAIN root |-> Text(root[i])]

\* binaryornot.is_binary: the bytes of the file hold a NUL byte
NUL == "<NUL>"
is_binary(e) == \E i \in DOMAIN e.content : e.content[i] = Lit(NUL)
\* the slip of dropping the template syntax of the bytes, and the bytes of
\* a source file
Bytes_literals_only(e) == Text(SelectSeq(e.content, LAMBDA t : "lit" \in DOMAIN t))
Bytes(e) == Text(e.content)

\* fnmatch.fnmatch(infile, pattern) for the patterns "*" and "*.<ext>"
fnmatch(e, pattern) ==
    \/ pattern = "*"
    \/ e.ext # "" /\ pattern = "*." \o e.ext

\* is_copy_only_path: the patterns are read from the context itself
is_copy_only_path(e, ctx) ==
    LET copy_only_patterns ==
            IF Has(ctx, "_copy_without_render") /\ IsList(Get(ctx, "_copy_without_render"))
            THEN Get(ctx, "_copy_without_render").l ELSE <<>>
    IN  \E i \in DOMAIN copy_only_patterns : fnmatch(e, Text(copy_only_patterns[i].s))

\* create_env_with_context(context) is called without a loader, and an
\* environment without a loader cannot get_template (TypeError)
EnvHasLoader == FALSE

\* render_and_create_dir, lines 188-199: the directory of the rendered name
create_dir(fs, dir_to_create, overwrite) ==
    LET m == make_sure_path_exists(fs, dir_to_create)
    IN  IF ~overwrite /\ Exists(fs, dir_to_create) THEN Res(dir_to_create, fs)
        ELSE IF m.ok THEN Res(dir_to_create, m.v)
        ELSE Fail(m.err, fs)

\* render_and_create_dir
render_and_create_dir(fs, dirname, ctx, output_dir, overwrite) ==
    IF dirname.t # "s" THEN Fail("TypeError", fs)
    ELSE LET r == Render(dirname.s, ctx)
         IN  IF ~r.ok THEN Fail("UndefinedError", fs)
             ELSE create_dir(fs, path_join(output_dir, Text(r.v.s)), overwrite)

\* the result of the walk at a file: v is the set of files written
Wrote(v, fs) == [ok |-> TRUE, err |-> "none", v |-> v, fs |-> fs]
NotWritten(e, fs) == [ok |-> FALSE, err |-> e, v |-> {}, fs |-> fs]

\* shutil.copyfile(infile, outfile), and open(outfile, "w") with fh.write
write_outfile(fs, outfile, bytes) ==
    LET w == WriteFile(fs, outfile, bytes)
    IN  IF w.ok THEN Wrote({outfile}, w.v) ELSE NotWritten(w.err, fs)

\* generate_file, lines 150-175: a binary file is copied, a text file is
\* loaded with env.get_template, rendered and written
generate_file_content(fs, outfile, e, ctx) ==
    IF is_binary(e) THEN write_outfile(fs, outfile, Bytes(e))
    ELSE IF ~EnvHasLoader THEN NotWritten("TypeError", fs)
    ELSE LET rendered_file == Render(e.content, ctx)
         IN  IF ~rendered_file.ok THEN NotWritten("UndefinedError", fs)
             ELSE write_outfile(fs, outfile, Text(rendered_file.v.s))

\* generate_file, lines 143-148: the skip test, the directory of outfile
generate_file_outfile(fs, outfile, e, ctx, skip) ==
    LET m == make_sure_path_exists(fs, Parent(outfile))
    IN  IF skip /\ Exists(fs, outfile) THEN Wrote({}, fs)
        ELSE IF ~m.ok THEN NotWritten(m.err, fs)
        ELSE generate_file_content(m.v, outfile, e, ctx)

\* generate_file
generate_file(fs, projdir, e, ctx, skip) ==
    LET n == RenderInfile(e, ctx)
    IN  IF ~n.ok THEN NotWritten("UndefinedError", fs)
        ELSE generate_file_outfile(fs, projdir \o n.v, e, ctx, skip)

\* generate_files, lines 308-310: the directory of outfile, the copy
copy_to_outfile(fs, outfile, e) ==
    LET m == make_sure_path_exists(fs, Parent(outfile))
    IN  IF ~m.ok THEN NotWritten(m.err, fs)
        ELSE write_outfile(m.v, outfile, Bytes(e))

\* generate_files, lines 304-310: a file matched by a copy-only pattern
copy_without_render(fs, projdir, e, ctx) ==
    LET n == RenderInfile(e, ctx)
    IN  IF ~n.ok THEN NotWritten("UndefinedError", fs)
        ELSE copy_to_outfile(fs, projdir \o n.v, e)

\* the names hooks.py binds: its imports and its own definitions
HooksNames ==
    {"logging", "os", "subprocess", "sys", "tempfile", "Path", "UndefinedError",
     "FailedHookException", "create_env_with_context", "create_tmp_repo_dir", "rmtree",
     "work_in", "valid_hook", "find_hook", "run_script", "run_script_with_context",
     "run_hook", "run_hook_from_repo_dir", "run_pre_prompt_hook"}

\* what the subprocess of a hook may do
HookOutcomes == {"exit0", "exit1", "oserror"}

\* run_script, lines 66-69: a path that ends with .py is handed to the
\* Python interpreter, any other path is executed directly
Interpreter(ext) == IF ext = "py" THEN "python" ELSE "direct"
\* line 87: NamedTemporaryFile(mode="w", delete=False) gives a name with no
\* suffix
TempScriptExt == ""

\* run_script: err is the exception that leaves it, "none" if none
run_script(fs, cwd_path, outcome) ==
    IF cwd_path \notin fs.d THEN "FileNotFoundError"
    ELSE IF outcome = "exit0" THEN "none"
    ELSE IF outcome = "exit1" THEN "CalledProcessError"
    ELSE "OSError"

\* run_script_with_context: the exception that leaves it, and whether the
\* temporary script is left behind
run_script_with_context(fs, e, cwd_path, ctx, envok, outcome) ==
    LET rendered_script == Render(e.content, ctx)
        ran == run_script(fs, cwd_path, outcome)
        by == IF cwd_path \in fs.d THEN Interpreter(TempScriptExt) ELSE "none"
    IN  IF ~envok THEN [err |-> "UnknownExtension", tmp |-> 0, by |-> "none"]
        ELSE IF ~rendered_script.ok
        THEN [err |-> IF "UndefinedVariableInTemplate" \in HooksNames
                      THEN "UndefinedVariableInTemplate" ELSE "NameError",
              tmp |-> 0, by |-> "none"]
        ELSE IF "make_executable" \notin HooksNames
        THEN [err |-> "NameError", tmp |-> 1, by |-> "none"]
        ELSE IF ran # "none" THEN [err |-> ran, tmp |-> 1, by |-> by]
        ELSE [err |-> "none", tmp |-> 0, by |-> by]

\* find_hook, from the repo directory: the entry of hooks/ valid for hook_name
find_hook(t, hook_name) == {i \in DOMAIN t : t[i].hook = hook_name}

\* run_hook: found tells whether a script was found
Found(r) == [err |-> r.err, tmp |-> r.tmp, by |-> r.by, found |-> TRUE]
run_hook(fs, t, hook_name, projdir, ctx, envok, outcome) ==
    LET hook_path == find_hook(t, hook_name)
    IN  IF hook_path = {} THEN [err |-> "none", tmp |-> 0, by |-> "none", found |-> FALSE]
        ELSE Found(run_script_with_context(fs, t[CHOOSE i \in hook_path : TRUE], projdir,
                                           ctx, envok, outcome))

\* _run_hook_from_repo_dir, lines 221-225: r is how run_hook ended
except_FailedHookException(r, fs, projdir, delete_project_on_failure) ==
    LET d == rmtree(fs, projdir)
    IN  IF r.err = "FailedHookException" /\ delete_project_on_failure
        THEN IF d.ok THEN [err |-> r.err, tmp |-> r.tmp, by |-> r.by, found |-> r.found, fs |-> d.v]
             ELSE [err |-> d.err, tmp |-> r.tmp, by |-> r.by, found |-> r.found, fs |-> fs]
        ELSE [err |-> r.err, tmp |-> r.tmp, by |-> r.by, found |-> r.found, fs |-> fs]

\* the record of a script handed to a subprocess: the hook, the extension of
\* its file in hooks/, and what executes it
Launch(sofar, t, hook_name, by) ==
    IF by = "none" THEN sofar
    ELSE sofar \o <<[hook |-> hook_name, ext |-> t[CHOOSE i \in find_hook(t, hook_name) : TRUE].ext,
                     by |-> by]>>

\* _run_hook_from_repo_dir
run_hook_from_repo_dir(fs, repo_dir, t, hook_name, projdir, ctx, envok, delete_project_on_failure, outcome) ==
    IF repo_dir \notin fs.d
    THEN [err |-> "FileNotFoundError", tmp |-> 0, by |-> "none", found |-> FALSE, fs |-> fs]
    ELSE except_FailedHookException(run_hook(fs, t, hook_name, projdir, ctx, envok, outcome),
                                    fs, projdir, delete_project_on_failure)

\* the slip of deleting the old project folder whatever overwrite_if_exists
\* is, and generate_files, lines 266-272: r is how render_and_create_dir ended
remove_old_project_always(r, overwrite) ==
    LET d == rmtree(r.fs, r.v)
    IN  IF ~r.ok THEN r
        ELSE IF Exists(r.fs, r.v)
        THEN IF d.ok THEN Res(r.v, d.v) ELSE Fail(d.err, r.fs)
        ELSE r
remove_old_project(r, overwrite) ==
    LET d == rmtree(r.fs, r.v)
    IN  IF ~r.ok THEN r
        ELSE IF overwrite /\ Exists(r.fs, r.v)
        THEN IF d.ok THEN Res(r.v, d.v) ELSE Fail(d.err, r.fs)
        ELSE r

\* generate_files, lines 250-272: the environment, the project directory
generate_files_start(fs, ctx, output_dir, overwrite, envok) ==
    IF ~envok THEN Fail("UnknownExtension", fs)
    ELSE IF ~(IsDict(ctx) /\ Has(ctx, "cookiecutter") /\ IsDict(Get(ctx, "cookiecutter"))
              /\ Has(Get(ctx, "cookiecutter"), "_template"))
    THEN Fail("KeyError", fs)
    ELSE remove_old_project(
            render_and_create_dir(fs, Get(Get(ctx, "cookiecutter"), "_template"), ctx,
                                  output_dir, overwrite),
            overwrite)

SetFS(fs) == dirs' = fs.d /\ files' = fs.f

\* generate_files, lines 250-272
GFStart ==
    /\ pc = "gf_start"
    /\ \E r \in {generate_files_start(CurFS, context, OutputDir, overwrite_if_exists, env_ok)} :
           /\ SetFS(r.fs)
           /\ IF r.ok THEN project_dir' = r.v /\ pc' = "gf_pre" /\ exc' = exc
              ELSE project_dir' = project_dir /\ pc' = RaisedPc /\ exc' = r.err
    /\ UNCHANGED <<context, env_ok, ctxVars, promptVars, genArgs, wi, cc_project_dir, cwd,
                   tmp_scripts, launched, pre_hook, post_hook, written>>

\* the outcome of "if accept_hooks: _run_hook_from_repo_dir(...)" for a hook
HookStep(hook_name, outcome) ==
    run_hook_from_repo_dir(CurFS, gf_repo_dir, tree, hook_name, project_dir, context, env_ok,
                           ~keep_project_on_failure, outcome)
HookStatus(r) == IF r.err # "none" THEN "failed" ELSE IF r.found THEN "ok" ELSE "no_hook"

\* generate_files, lines 274-281
GFPreHook ==
    /\ pc = "gf_pre"
    /\ IF accept_hooks
       THEN \E outcome \in HookOutcomes :
               \E r \in {HookStep("pre_gen_project", outcome)} :
                   /\ SetFS(r.fs)
                   /\ tmp_scripts' = tmp_scripts + r.tmp
                   /\ launched' = Launch(launched, tree, "pre_gen_project", r.by)
                   /\ cwd' = work_in(cwd, "repo_dir", r.err # "none")
                   /\ pre_hook' = HookStatus(r)
                   /\ IF r.err = "none" THEN pc' = "gf_work_in" /\ exc' = exc
                      ELSE pc' = RaisedPc /\ exc' = r.err
       ELSE /\ pre_hook' = "skipped" /\ pc' = "gf_work_in"
            /\ UNCHANGED <<exc, dirs, files, tmp_scripts, launched, cwd>>
    /\ UNCHANGED <<context, env_ok, ctxVars, promptVars, genArgs, wi, project_dir,
                   cc_project_dir, post_hook, written>>

\* line 283: with work_in(repo_dir)
GFWorkIn ==
    /\ pc = "gf_work_in"
    /\ IF gf_repo_dir \in dirs
       THEN cwd' = "repo_dir" /\ wi' = 1 /\ pc' = "gf_walk" /\ exc' = exc
       ELSE cwd' = cwd /\ wi' = wi /\ pc' = RaisedPc /\ exc' = "FileNotFoundError"
    /\ UNCHANGED <<context, env_ok, ctxVars, promptVars, genArgs, project_dir,
                   cc_project_dir, dirs, files, tmp_scripts, launched, pre_hook, post_hook, written>>

\* lines 285-292: one directory of the walk
GFWalkDir ==
    /\ pc = "gf_walk" /\ wi <= Len(tree) /\ tree[wi].kind = "dir"
    /\ \E r \in {render_and_create_dir(CurFS, Str(tree[wi].name), context,
                                        project_dir \o UnrenderedRoot(tree[wi].root),
                                        overwrite_if_exists)} :
           /\ SetFS(r.fs)
           /\ IF r.ok THEN wi' = wi + 1 /\ UNCHANGED <<pc, exc, cwd>>
              ELSE /\ wi' = wi /\ pc' = RaisedPc /\ exc' = r.err
                   /\ cwd' = work_in("orig", "repo_dir", TRUE)
    /\ UNCHANGED <<context, env_ok, ctxVars, promptVars, genArgs, project_dir,
                   cc_project_dir, tmp_scripts, launched, pre_hook, post_hook, written>>

\* the body of the loop over the files, lines 295-310
walk_file(fs, projdir, e, ctx, skip) ==
    IF e.ext = "swp" THEN Wrote({}, fs)
    ELSE IF ~is_copy_only_path(e, ctx) THEN generate_file(fs, projdir, e, ctx, skip)
    ELSE copy_without_render(fs, projdir, e, ctx)

\* lines 294-310: one file of the walk
GFWalkFile ==
    /\ pc = "gf_walk" /\ wi <= Len(tree) /\ tree[wi].kind = "file"
    /\ \E r \in {walk_file(CurFS, project_dir, tree[wi], context, skip_if_file_exists)} :
           /\ SetFS(r.fs)
           /\ written' = written \cup r.v
           /\ IF r.ok THEN wi' = wi + 1 /\ UNCHANGED <<pc, exc, cwd>>
              ELSE /\ wi' = wi /\ pc' = RaisedPc /\ exc' = r.err
                   /\ cwd' = work_in("orig", "repo_dir", TRUE)
    /\ UNCHANGED <<context, env_ok, ctxVars, promptVars, genArgs, project_dir,
                   cc_project_dir, tmp_scripts, launched, pre_hook, post_hook>>

\* the slip of leaving the walk before its last entry, and the end of the
\* with block of line 283
GFWalkExit_before_the_end ==
    /\ pc = "gf_walk"
    /\ cwd' = "orig" /\ pc' = "gf_post"
    /\ UNCHANGED <<exc, context, env_ok, ctxVars, promptVars, genArgs, wi, project_dir,
                   cc_project_dir, dirs, files, tmp_scripts, launched, pre_hook, post_hook, written>>
GFWalkExit ==
    /\ pc = "gf_walk" /\ wi > Len(tree)
    /\ cwd' = work_in("orig", "repo_dir", FALSE) /\ pc' = "gf_post"
    /\ UNCHANGED <<exc, context, env_ok, ctxVars, promptVars, genArgs, wi, project_dir,
                   cc_project_dir, dirs, files, tmp_scripts, launched, pre_hook, post_hook, written>>

\* lines 312-319
GFPostHook ==
    /\ pc = "gf_post"
    /\ IF accept_hooks
       THEN \E outcome \in HookOutcomes :
               \E r \in {HookStep("post_gen_project", outcome)} :
                   /\ SetFS(r.fs)
                   /\ tmp_scripts' = tmp_scripts + r.tmp
                   /\ launched' = Launch(launched, tree, "post_gen_project", r.by)
                   /\ cwd' = work_in(cwd, "repo_dir", r.err # "none")
                   /\ post_hook' = HookStatus(r)
                   /\ IF r.err = "none" THEN pc' = "gf_return" /\ exc' = exc
                      ELSE pc' = RaisedPc /\ exc' = r.err
       ELSE /\ post_hook' = "skipped" /\ pc' = "gf_return"
            /\ UNCHANGED <<exc, dirs, files, tmp_scripts, launched, cwd>>
    /\ UNCHANGED <<context, env_ok, ctxVars, promptVars, genArgs, wi, project_dir,
                   cc_project_dir, pre_hook, written>>

\* line 321, and main.py line 123 when cookiecutter() is the caller
GFReturn ==
    /\ pc = "gf_return"
    /\ IF caller = "cookiecutter"
       THEN cc_project_dir' = project_dir /\ pc' = "cc_finish"
       ELSE cc_project_dir' = cc_project_dir /\ pc' = "done"
    /\ UNCHANGED <<exc, context, env_ok, ctxVars, promptVars, genArgs, wi, project_dir,
                   dirs, files, cwd, tmp_scripts, launched, pre_hook, post_hook, written>>

----------------------------------------------------------------------------
(* main.py : cookiecutter() around generate_files *)

\* lines 69-131: project_dir = None, the context is prepared, generate_files
\* is called
CCPrepare ==
    /\ pc = "cc_start"
    /\ cc_project_dir' = NoPath /\ pc' = "gf_start"
    /\ UNCHANGED <<exc, context, env_ok, ctxVars, promptVars, genArgs, wi, project_dir,
                   dirs, files, cwd, tmp_scripts, launched, pre_hook, post_hook, written>>

\* replay.dump and replay.load: json.dump writes the mapping as JSON text,
\* json.load reads the text back; the keys of a context are strings and its
\* values strings, numbers, booleans, lists and dicts, which JSON keeps
json_dump(v) == [json |-> v]
json_load(j) == j.json
load(store) == IF store = NoReplay THEN None ELSE json_load(store)

\* lines 133-141: remove a temporary template directory (which may fail),
\* dump the context if replay is set (which may fail), return
CCFinish ==
    /\ pc = "cc_finish"
    /\ \E removable \in BOOLEAN, writable \in BOOLEAN :
       \E d \in {IF cleanup THEN rmtree(CurFS, RepoDir) ELSE Ok(CurFS)} :
          IF cleanup /\ ~(removable /\ d.ok)
          THEN /\ UNCHANGED <<dirs, files, replay_store>> /\ pc' = "cc_except"
               /\ exc' = (IF d.ok THEN "PermissionError" ELSE d.err)
          ELSE /\ SetFS(d.v)
               /\ IF replay /\ IsDict(context)
                  THEN IF writable
                       THEN replay_store' = json_dump(context) /\ pc' = "done" /\ exc' = exc
                       ELSE replay_store' = replay_store /\ pc' = "cc_except"
                            /\ exc' = "OSError"
                  ELSE replay_store' = replay_store /\ pc' = "done" /\ exc' = exc
    /\ UNCHANGED <<context, env_ok, ctxVars, promptVars, callArgs, wi, project_dir,
                   cc_project_dir, cwd, tmp_scripts, launched, pre_hook, post_hook, written>>

\* lines 143-146: the handler of cookiecutter()
CCExcept ==
    /\ pc = "cc_except"
    /\ IF ~keep_project_on_failure /\ cc_project_dir # NoPath
       THEN \E d \in {rmtree(CurFS, cc_project_dir)} :
                IF d.ok THEN SetFS(d.v) /\ exc' = exc
                ELSE UNCHANGED <<dirs, files>> /\ exc' = d.err
       ELSE UNCHANGED <<exc, dirs, files>>
    /\ pc' = "raised"
    /\ UNCHANGED <<context, env_ok, ctxVars, promptVars, genArgs, wi, project_dir,
                   cc_project_dir, cwd, tmp_scripts, launched, pre_hook, post_hook, written>>

(* main.py : cookiecutter(), step by step *)

\* the template argument, and the directory of the copy create_tmp_repo_dir
\* makes
TmpRepoDir == <<"tmp", "repo">>

\* prompt_and_delete: what it leaves, what it asked, whether it raised
\* SystemExit
PDOut(fs, asked, exit, err) == [fs |-> fs, asked |-> asked, exit |-> exit, err |-> err]
prompt_and_delete_rmtree(fs, path, asked) ==
    LET d == rmtree(fs, path)
    IN  IF d.ok THEN PDOut(d.v, asked, FALSE, "none") ELSE PDOut(fs, asked, FALSE, d.err)
prompt_and_delete(fs, path, noinput) ==
    IF noinput THEN {prompt_and_delete_rmtree(fs, path, <<>>)}
    ELSE {prompt_and_delete_rmtree(fs, path, Asked("delete", "yes_no")),
          PDOut(fs, Asked("delete", "yes_no") \o Asked("reuse", "yes_no"), FALSE, "none"),
          PDOut(fs, Asked("delete", "yes_no") \o Asked("reuse", "yes_no"), TRUE, "none")}

\* run_pre_prompt_hook: the exception that leaves it, "none" if none; the
\* pre_prompt script is run as it is from the copy of repo_dir
run_pre_prompt_hook(fs, t, repo_dir, outcome) ==
    IF repo_dir \notin fs.d THEN "FileNotFoundError"
    ELSE IF find_hook(t, "pre_prompt") = {} THEN "none"
    ELSE run_script(FS(fs.d \cup Prefixes(TmpRepoDir), fs.f), TmpRepoDir, outcome)

\* choose_nested_template: the directories it may return
choose_nested_template(ctx, repo_dir, noinput) ==
    LET template_options ==
            IF Has(Get(ctx, "cookiecutter"), "_templates")
            THEN Get(Get(ctx, "cookiecutter"), "_templates") ELSE EmptyDict
    IN  IF template_options.ks = <<>> THEN {repo_dir}
        ELSE IF noinput
        THEN {repo_dir \o <<Text(Get(template_options, template_options.ks[1]).s)>>}
        ELSE {repo_dir \o <<Text(Get(template_options, Text(o.r.v.s)).s)>> :
                o \in prompt_choice_for_template("_templates", template_options, noinput)}

\* lines 69-92: project_dir = None, the repo directory is determined, and
\* prompt_and_delete is called on it if cleanup is set
MStart ==
    /\ pc = "m_start"
    /\ cc_project_dir' = NoPath
    /\ IF cleanup
       THEN \E o \in prompt_and_delete(CurFS, RepoDir, no_input) :
               /\ SetFS(o.fs)
               /\ prompted' = prompted \o o.asked
               /\ IF o.err # "none" THEN pc' = "cc_except" /\ exc' = o.err
                  ELSE /\ pc' = (IF o.exit THEN "done" ELSE "m_pre_prompt")
                       /\ exc' = exc
       ELSE pc' = "m_pre_prompt" /\ UNCHANGED <<exc, dirs, files, prompted>>
    /\ UNCHANGED <<context, env_ok, ctxVars, no_input, cookiecutter_dict, idx, genArgs, wi,
                   project_dir, cwd, tmp_scripts, launched, pre_hook, post_hook, written>>

\* lines 94-96: the pre-prompt hook; the copy of repo_dir stays
MPrePrompt ==
    /\ pc = "m_pre_prompt"
    /\ IF accept_hooks
       THEN \E outcome \in HookOutcomes :
            \E err \in {run_pre_prompt_hook(CurFS, tree, RepoDir, outcome)} :
               /\ dirs' = (IF RepoDir \in dirs THEN dirs \cup Prefixes(TmpRepoDir) ELSE dirs)
               /\ launched' = Launch(launched, tree, "pre_prompt",
                                     IF RepoDir \in dirs /\ find_hook(tree, "pre_prompt") # {}
                                     THEN Interpreter(tree[CHOOSE i \in find_hook(tree, "pre_prompt") : TRUE].ext)
                                     ELSE "none")
               /\ IF err = "none" THEN pc' = "m_context" /\ exc' = exc
                  ELSE pc' = "cc_except" /\ exc' = err
       ELSE pc' = "m_context" /\ UNCHANGED <<exc, dirs, launched>>
    /\ UNCHANGED <<context, env_ok, ctxVars, promptVars, genArgs, wi, project_dir,
                   cc_project_dir, files, cwd, tmp_scripts, pre_hook, post_hook, written>>

\* lines 98-104: generate_context is called on repo_dir/cookiecutter.json
MContext ==
    /\ pc = "m_context"
    /\ IF RepoDir \in dirs THEN pc' = "gc_load" /\ exc' = exc
       ELSE pc' = "cc_except" /\ exc' = "FileNotFoundError"
    /\ UNCHANGED <<context, env_ok, ctxVars, promptVars, genVars>>

\* generate_context has returned
MContextDone ==
    /\ pc = "gc_done" /\ caller = "cookiecutter"
    /\ pc' = "m_prompt"
    /\ UNCHANGED <<exc, context, env_ok, ctxVars, promptVars, genVars>>

\* an exception of generate_context or prompt_for_config reaches the handler
MCalleeRaised ==
    /\ pc \in {"gc_raised", "pfc_raised"} /\ caller = "cookiecutter"
    /\ pc' = "cc_except"
    /\ UNCHANGED <<exc, context, env_ok, ctxVars, promptVars, genVars>>

\* lines 106-109: prompt_for_config is called unless replay or no_input
MPrompt ==
    /\ pc = "m_prompt"
    /\ pc' = (IF ~replay /\ ~no_input THEN "pfc_start" ELSE "m_generate")
    /\ UNCHANGED <<exc, context, env_ok, ctxVars, promptVars, genVars>>

\* line 109: context["cookiecutter"] = the mapping prompt_for_config returned
MPromptDone ==
    /\ pc = "pfc_done" /\ caller = "cookiecutter"
    /\ context' = Put(context, "cookiecutter", cookiecutter_dict)
    /\ pc' = "m_generate"
    /\ UNCHANGED <<exc, env_ok, ctxVars, promptVars, genVars>>

\* lines 111-120: the context of a replay, the _template key
replayed(ctx, store, rp) == IF rp THEN load(store) ELSE ctx
with_template(ctx, tmpl) ==
    IF IsDict(ctx) /\ Has(ctx, "cookiecutter") /\ IsDict(Get(ctx, "cookiecutter"))
    THEN Put(ctx, "cookiecutter", Put(Get(ctx, "cookiecutter"), "_template", tmpl))
    ELSE ctx

\* lines 111-131: the replay file is loaded if replay is set, _template is
\* set, generate_files is called with repo_dir
MGenerate ==
    /\ pc = "m_generate"
    /\ context' = with_template(replayed(context, replay_store, replay), template)
    /\ gf_repo_dir' = RepoDir
    /\ pc' = "gf_start"
    /\ UNCHANGED <<exc, env_ok, ctxVars, promptVars, caller, cleanup, overwrite_if_exists,
                   skip_if_file_exists, accept_hooks, keep_project_on_failure, tree, replay,
                   template,
                   replay_store, genState>>

(* Inputs of the Generation Engine *)

\* the templates: hooks/ (if the template has hooks), a directory dname with
\* a subdirectory and the file f2, the file f1 at the top
HookContents == {<<Lit("echo "), ccRef("d")>>}
TopFiles ==
    {FileE(<<>>, <<Lit("readme")>>, "txt", <<Lit("hello")>>),
     FileE(<<>>, <<Lit("readme")>>, "txt", <<Lit("name="), ccRef("u")>>),
     FileE(<<>>, <<ccRef("d")>>, "txt", <<Lit("name="), ccRef("d")>>),
     FileE(<<>>, <<ccRef("u")>>, "txt", <<Lit("hello")>>),
     FileE(<<>>, <<ccRef("d")>>, "bin", <<Lit(NUL), ccRef("u")>>),
     FileE(<<>>, <<Lit("readme")>>, "swp", <<Lit("hello")>>)}
SubFiles(root) ==
    {FileE(root, <<Lit("data")>>, "bin", <<Lit(NUL), Lit("{{")>>),
     FileE(root, <<Lit("note")>>, "txt", <<ccRef("d")>>)}
DirNames == {<<Lit("src")>>, <<ccRef("d")>>}
Tree(hooks, content, dname, f1, f2name) ==
    (IF hooks # {} THEN <<DirE(<<>>, <<Lit("hooks")>>)>> ELSE <<>>)
    \o <<DirE(<<>>, dname), f1>>
    \o (IF "pre_gen_project" \in hooks THEN <<HookE("pre_gen_project", "py", content)>> ELSE <<>>)
    \o (IF "post_gen_project" \in hooks THEN <<HookE("post_gen_project", "sh", content)>> ELSE <<>>)
    \o <<DirE(<<dname>>, <<Lit("sub")>>),
          CHOOSE f \in SubFiles(<<dname>>) : f.name = f2name>>
Trees ==
    {Tree(hooks, content, dname, f1, f2name) :
        hooks \in SUBSET {"pre_gen_project", "post_gen_project"},
        content \in HookContents, dname \in DirNames, f1 \in TopFiles,
        f2name \in {f.name : f \in SubFiles(<<>>)}}

\* the contexts: the variable d, the template name, and the copy-only
\* patterns, where is_copy_only_path reads them or in the manifest
GenManifest(tmpl) == Dict2("d", Txt("pkg"), "_template", tmpl)
GenContexts ==
    {Dict1("cookiecutter", GenManifest(Txt("proj")))}
    \cup {Dict2("cookiecutter", GenManifest(Txt("proj")), "_copy_without_render", List(<<Txt(pt)>>))
            : pt \in {"*", "*.bin"}}
    \cup {Dict1("cookiecutter",
                Put(GenManifest(Txt("proj")), "_copy_without_render", List(<<Txt("*")>>)))}

\* the file system before the run
ProjPath == OutputDir \o <<"proj">>
BaseDirs == Prefixes(OutputDir) \cup Prefixes(RepoDir)
Dests(t, ctx) ==
    {ProjPath \o RenderInfile(t[i], ctx).v :
        i \in {j \in DOMAIN t : t[j].kind = "file" /\ RenderInfile(t[j], ctx).ok}}
InitialFS(kind, t, ctx) ==
    CASE kind = "absent" -> FS(BaseDirs, NoFiles)
      [] kind = "empty" -> FS(BaseDirs \cup {ProjPath}, NoFiles)
      [] kind = "full" ->
            FS(BaseDirs \cup UNION {Prefixes(Parent(p)) : p \in Dests(t, ctx)},
               [p \in Dests(t, ctx) \cup {ProjPath \o <<"keep.txt">>} |-> "old"])
      [] kind = "blocked" ->
            FS(BaseDirs \cup {ProjPath},
               [p \in {ProjPath \o <<"src">>, ProjPath \o <<"pkg">>} |-> "old"])

Init ==
    /\ pc \in {"gf_start", "cc_start"}
    /\ caller = (IF pc = "cc_start" THEN "cookiecutter" ELSE "generate_files")
    /\ cleanup \in (IF caller = "cookiecutter" THEN BOOLEAN ELSE {FALSE})
    /\ exc = "none"
    /\ env_ok = TRUE
    /\ context \in GenContexts
    /\ overwrite_if_exists \in BOOLEAN
    /\ skip_if_file_exists \in BOOLEAN
    /\ accept_hooks \in BOOLEAN
    /\ keep_project_on_failure \in BOOLEAN
    /\ tree \in Trees
    /\ \E kind \in {"absent", "empty", "full", "blocked"} :
          LET fs == InitialFS(kind, tree, context) IN dirs = fs.d /\ files = fs.f
    /\ wi = 0 /\ project_dir = NoPath /\ cc_project_dir = NoPath
    /\ replay = FALSE /\ gf_repo_dir = RepoDir /\ replay_store = NoReplay
    /\ template = TemplateName
    /\ cwd = "orig" /\ tmp_scripts = 0 /\ launched = <<>>
    /\ pre_hook = "not_run" /\ post_hook = "not_run" /\ written = {}
    /\ CfgIdle /\ in_dictionary_variable = FALSE /\ default_context = None /\ extra_context = None
    /\ manifest = [valid |-> TRUE, obj |-> EmptyDict]
    /\ no_input = FALSE /\ cookiecutter_dict = None /\ idx = 0 /\ prompted = <<>>

Next ==
    \/ GFStart \/ GFPreHook \/ GFWorkIn \/ GFWalkDir \/ GFWalkFile \/ GFWalkExit
    \/ GFPostHook \/ GFReturn
    \/ CCPrepare \/ CCFinish \/ CCExcept

Spec == Init /\ [][Next]_vars

(* Inputs of cookiecutter() *)
MainManifests ==
    {[valid |-> TRUE, obj |-> Dict1("d", Txt("pkg"))],
     [valid |-> TRUE,
      obj |-> Dict2("d", Txt("pkg"),
                    "_templates", Dict2("one", Txt("fake-project"), "two", Txt("fake-package")))],
     [valid |-> TRUE, obj |-> Dict2("d", Txt("pkg"), "license", List(<<Txt("MIT"), Txt("BSD")>>))],
     [valid |-> FALSE, obj |-> EmptyDict]}
MainTrees ==
    {<<FileE(<<>>, <<ccRef("d")>>, "bin", <<Lit(NUL), ccRef("u")>>)>>,
     <<FileE(<<>>, <<Lit("readme")>>, "txt", <<Lit("hello")>>)>>,
     <<DirE(<<>>, <<Lit("hooks")>>),
       FileE(<<>>, <<ccRef("d")>>, "bin", <<Lit(NUL), ccRef("u")>>),
       HookE("pre_prompt", "py", <<Lit(NUL), Lit("exit")>>)>>,
     <<DirE(<<>>, <<Lit("hooks")>>),
       HookE("pre_gen_project", "py", <<Lit("echo "), ccRef("u")>>)>>}
MainTemplates == {TemplateName, Txt(RepoDirText)}
MainExtraContexts == {None, Dict1("d", Txt("x"))}
ReplayStores ==
    {NoReplay,
     json_dump(Dict1("cookiecutter", Dict2("d", Txt("old"), "_template", TemplateName)))}

InitMain ==
    /\ pc = "m_start" /\ caller = "cookiecutter" /\ exc = "none" /\ env_ok = TRUE
    /\ cleanup \in BOOLEAN /\ no_input \in BOOLEAN /\ replay \in BOOLEAN
    /\ accept_hooks \in BOOLEAN /\ keep_project_on_failure \in BOOLEAN
    /\ overwrite_if_exists \in BOOLEAN /\ skip_if_file_exists = FALSE
    /\ template \in MainTemplates
    /\ manifest \in MainManifests /\ CfgIdle /\ in_dictionary_variable = FALSE /\ default_context = None
    /\ extra_context \in MainExtraContexts
    /\ tree \in MainTrees /\ replay_store \in ReplayStores
    /\ dirs = BaseDirs /\ files = NoFiles
    /\ context = None /\ cookiecutter_dict = None /\ idx = 0 /\ prompted = <<>>
    /\ wi = 0 /\ project_dir = NoPath /\ cc_project_dir = NoPath /\ gf_repo_dir = NoPath
    /\ cwd = "orig" /\ tmp_scripts = 0 /\ launched = <<>>
    /\ pre_hook = "not_run" /\ post_hook = "not_run" /\ written = {}

NextMain ==
    \/ MStart \/ MPrePrompt \/ MContext \/ MContextDone \/ MCalleeRaised
    \/ MPrompt \/ MPromptDone \/ MGenerate
    \/ GCLoad \/ GCApplyDefaults \/ GCApplyExtra \/ GCReturn
    \/ PFCStart \/ PFCMeta \/ PFCResolve \/ PFCReturn
    \/ GFStart \/ GFPreHook \/ GFWorkIn \/ GFWalkDir \/ GFWalkFile \/ GFWalkExit
    \/ GFPostHook \/ GFReturn
    \/ CCFinish \/ CCExcept

SpecMain == InitMain /\ [][NextMain]_vars

----------------------------------------------------------------------------
(* The user configuration alone *)

InitConfig ==
    /\ pc = "guc_call"
    /\ exc = "none"
    /\ DEFAULT_CONFIG = DefaultConfig
    /\ config_file \in {None, Txt("my.yaml"), Txt(USER_CONFIG_PATH)}
    /\ default_config \in DefaultConfigArgs
    /\ environ \in {None, Txt("env.yaml")}
    /\ config_files \in [ConfigPaths -> ConfigFileContents]
    /\ config_dict = None
    /\ context = None
    /\ in_dictionary_variable = FALSE /\ default_context = None /\ extra_context = None
    /\ manifest = [valid |-> TRUE, obj |-> EmptyDict]
    /\ no_input = FALSE /\ env_ok = TRUE /\ cookiecutter_dict = None
    /\ idx = 0 /\ prompted = <<>>
    /\ GenIdle

NextConfig == GUCCall \/ CCReadConfig

SpecConfig == InitConfig /\ [][NextConfig]_vars

(* Properties of the user configuration *)

\* C29: whenever get_user_config has returned, what it returned is a
\* mapping with the keys cookiecutters_dir, replay_dir, default_context and
\* abbreviations, and DEFAULT_CONFIG is what it was.
C29_UserConfigHasEveryKey ==
    pc = "guc_done" =>
        /\ IsDict(config_dict)
        /\ \A k \in {"cookiecutters_dir", "replay_dir", "default_context", "abbreviations"} :
              Has(config_dict, k)
        /\ DEFAULT_CONFIG = DefaultConfig

----------------------------------------------------------------------------
(* Properties of the Context Builder *)

CtxKeys == {"a", "b"}
\* the manifest entry of the context, context['cookiecutter']
cc == Get(context, "cookiecutter")
Gives(ov, k) == Truthy(ov) /\ Has(ov, k)
GivesScalar(ov, k) == Gives(ov, k) /\ Get(ov, k).t = "s"
GivesList(ov, k) == Gives(ov, k) /\ IsList(Get(ov, k))
GivesDict(ov, k) == Gives(ov, k) /\ IsDict(Get(ov, k))
ListOf(ov, k) == IF GivesList(ov, k) THEN Get(ov, k).l ELSE <<>>

\* C5: after generate_context, for a key that the manifest holds as a
\* sequence (or does not hold) and that the overrides give sequences for,
\* context['cookiecutter'][key] is the manifest's sequence followed by the
\* elements of default_context's and then extra_context's sequence.
C5_SequenceOverrideAppendsToManifest ==
    pc = "gc_done" =>
        \A k \in CtxKeys :
            ( /\ Has(manifest.obj, k) => IsList(Get(manifest.obj, k))
              /\ Gives(default_context, k) => GivesList(default_context, k)
              /\ Gives(extra_context, k) => GivesList(extra_context, k)
              /\ GivesList(default_context, k) \/ GivesList(extra_context, k) )
            => /\ Has(cc, k)
               /\ Get(cc, k) = List(ListOf(manifest.obj, k) \o ListOf(default_context, k)
                                    \o ListOf(extra_context, k))

\* the merge the specification describes: key by key, recursing where both
\* sides hold a mapping, keeping the keys the override does not mention
RECURSIVE RecMerge(_, _)
RecMerge(base, ov) ==
    LET RECURSIVE loop(_, _)
        loop(b, i) ==
            IF i > Len(ov.ks) THEN b
            ELSE LET k == ov.ks[i]
                     v == Get(ov, k)
                 IN  loop(Put(b, k, IF IsDict(v) /\ Has(b, k) /\ IsDict(Get(b, k))
                                    THEN RecMerge(Get(b, k), v) ELSE v), i + 1)
    IN  loop(base, 1)
\* the override's shape agrees with the base wherever both have a key
RECURSIVE SameShape(_, _)
SameShape(base, ov) ==
    \A k \in Range(ov.ks) :
        Has(base, k) => /\ IsDict(Get(ov, k)) = IsDict(Get(base, k))
                        /\ IsDict(Get(ov, k)) => SameShape(Get(base, k), Get(ov, k))
DictOf(ov, k) == IF GivesDict(ov, k) THEN Get(ov, k) ELSE EmptyDict

\* C6: after generate_context, for a key that the manifest holds as a
\* mapping and that an override gives a mapping for, the manifest entry is
\* the recursive merge (siblings kept), and the context has no key besides
\* 'cookiecutter'.
C6_MappingOverrideMergesIntoManifest ==
    pc = "gc_done" =>
        \A k \in CtxKeys :
            ( /\ Has(manifest.obj, k) /\ IsDict(Get(manifest.obj, k))
              /\ Gives(default_context, k) => GivesDict(default_context, k)
              /\ Gives(extra_context, k) => GivesDict(extra_context, k)
              /\ GivesDict(default_context, k) \/ GivesDict(extra_context, k)
              /\ SameShape(Get(manifest.obj, k), DictOf(default_context, k))
              /\ SameShape(RecMerge(Get(manifest.obj, k), DictOf(default_context, k)),
                           DictOf(extra_context, k)) )
            => /\ Get(cc, k) = RecMerge(RecMerge(Get(manifest.obj, k), DictOf(default_context, k)),
                                        DictOf(extra_context, k))
               /\ ~Has(context, k)

\* C7: generate_context applies default_context before extra_context: a key
\* given a scalar by extra_context holds that value in the manifest entry
\* (also when default_context gave it another scalar), a key given a scalar
\* by default_context only holds the default's, and this holds as well for a
\* key the manifest does not declare, which is added to it.
C7_ExtraWinsAndNewKeysAccepted ==
    pc = "gc_done" =>
        \A k \in CtxKeys :
            /\ GivesScalar(extra_context, k)
                => Has(cc, k) /\ Get(cc, k) = Get(extra_context, k)
            /\ (GivesScalar(default_context, k) /\ ~Gives(extra_context, k))
                => Has(cc, k) /\ Get(cc, k) = Get(default_context, k)

\* both overrides give "a" different scalars, and extra_context gives the
\* undeclared key "b" a scalar
C7_Witness ==
    /\ pc = "gc_done"
    /\ GivesScalar(default_context, "a") /\ GivesScalar(extra_context, "a")
    /\ Get(default_context, "a") # Get(extra_context, "a")
    /\ Get(cc, "a") = Get(extra_context, "a")
    /\ ~Has(manifest.obj, "b") /\ GivesScalar(extra_context, "b")
    /\ Get(cc, "b") = Get(extra_context, "b")

\* the entry that the branch for the value v of key k works on: the scalar
\* branch of a top-level call writes into context['cookiecutter'], every
\* other branch works on context[k]
IsScalar(v) == v.t \in {"s", "n", "b"}
Target(ctx, k, v) ==
    IF IsScalar(v) /\ ~in_dictionary_variable THEN Get(ctx, "cookiecutter") ELSE ctx
ShapeDiffers(base, v) ==
    \/ IsList(base) /\ IsScalar(v)
    \/ IsScalar(base) /\ (IsList(v) \/ IsDict(v))

\* C25: a call of apply_overwrites_to_context whose override gives a key a
\* value of another shape than the existing entry (a scalar for a sequence,
\* a sequence or a mapping for a scalar) returns without an exception; a
\* scalar has then replaced the entry, a sequence has left a sequence that
\* holds its elements.
C25_ShapeMismatchFollowsTheOverride ==
    [][pc = "aoc_call" =>
        \A k \in Range(extra_context.ks) :
            LET v == Get(extra_context, k)
            IN  (Has(Target(context, k, v), k) /\ ShapeDiffers(Get(Target(context, k, v), k), v))
                => /\ pc' = "aoc_done"
                   /\ IsScalar(v) => Get(Target(context', k, v), k) = v
                   /\ IsList(v) => /\ IsList(Get(context', k))
                                   /\ Get(context', k).l = v.l]_vars

----------------------------------------------------------------------------
(* Properties of the Interactive Resolver *)

\* the manifest being resolved
pfcManifest == Get(context, "cookiecutter")
ResolverEnded == pc \in {"pfc_done", "pfc_raised"}
C4Example ==
    DictOfEntries(<<<<"project_name", Txt("My App")>>,
                    <<"slug", Str(<<RefF(<<"cookiecutter", "project_name">>, "lower")>>)>>>>)

Prefix(d, n) == Dict(SubSeq(d.ks, 1, n), [k \in {d.ks[i] : i \in 1..n} |-> d.vs[k]])
\* a default rendered against the resolved variables, which a template
\* names cookiecutter.<name>; a number or a boolean is its own rendering
RenderedDefault(raw, resolved) ==
    IF raw.t = "s" THEN Render(raw.s, Dict1("cookiecutter", resolved)) ELSE Ok(raw)
AllScalar(m) == \A k \in Range(m.ks) : Get(m, k).t \in {"s", "n", "b"}

----------------------------------------------------------------------------
(* Properties of the Generation Engine and the Hook Runner *)

\* generate_files has raised (cookiecutter()'s handler may not have run yet)
GFRaised == pc \in {"raised", "cc_except"} /\ cc_project_dir = NoPath
\* the destination of a file entry whose name renders
Dest(e) == project_dir \o RenderInfile(e, context).v
\* the entry the walk is at
Entry == tree[wi]
AtFile == wi \in DOMAIN tree /\ Entry.kind = "file"

\* the project directory holds files, all of them written by this run
PartlyGenerated ==
    /\ written # {}
    /\ \A f \in DOMAIN files : IsPrefix(project_dir, f) => f \in written

AllWalked ==
    \A i \in DOMAIN tree :
        (tree[i].kind = "file" /\ tree[i].ext # "swp") => Dest(tree[i]) \in DOMAIN files

InGenerateFiles == pc \in {"gf_start", "gf_pre", "gf_work_in", "gf_walk", "gf_post", "gf_return"}

Passed == {i \in DOMAIN tree : i < wi}
\* the content of a file holds template syntax
HasTemplateSyntax(e) ==
    \E j \in DOMAIN e.content : "ref" \in DOMAIN e.content[j] \/ e.content[j] = Lit("{{")

ManifestPatterns ==
    IF Has(Get(context, "cookiecutter"), "_copy_without_render")
    THEN Get(Get(context, "cookiecutter"), "_copy_without_render").l ELSE <<>>
MatchesManifestPattern(e) ==
    \E j \in DOMAIN ManifestPatterns : fnmatch(e, Text(ManifestPatterns[j].s))

TemplatedDirNames ==
    {Text(tree[i].name) : i \in {j \in DOMAIN tree : /\ tree[j].kind = "dir"
                                                     /\ Text(tree[j].name) # "hooks"
                                                     /\ \E n \in DOMAIN tree[j].name :
                                                            "ref" \in DOMAIN tree[j].name[n]}}
RenderedDir(e) == project_dir \o RenderComps(e.root \o <<e.name>>, context).v

InProject(paths) == {q \in paths : IsPrefix(cc_project_dir, q)}

RenderedOptions ==
    {render_variable(PFCRaw.l[i], cookiecutter_dict) : i \in DOMAIN PFCRaw.l}

DefaultIsUndefined ==
    \/ PFCRaw.t = "s" /\ ~Render(PFCRaw.s, cookiecutter_dict).ok
    \/ IsList(PFCRaw) /\ PFCRaw.l # <<>> /\ PFCRaw.l[1].t = "s"
          /\ ~Render(PFCRaw.l[1].s, cookiecutter_dict).ok

HookRenderFails(hook_name) ==
    \E i \in find_hook(tree, hook_name) : ~Render(tree[i].content, context).ok

RanByItsInterpreter(hook_name) ==
    \E i \in DOMAIN launched :
        /\ launched[i].hook = hook_name
        /\ launched[i].by = Interpreter(launched[i].ext)
Discovered(hook_name) ==
    /\ find_hook(tree, hook_name) # {} /\ ~HookRenderFails(hook_name)
    /\ env_ok /\ project_dir \in dirs

C15_NoInputGeneratesFromFirstNestedTemplate ==
    (caller = "cookiecutter" /\ no_input /\ ~replay /\ InGenerateFiles
            /\ Has(Get(context, "cookiecutter"), "_templates"))
        => gf_repo_dir \in choose_nested_template(context, RepoDir, no_input)

BeforeCleanup ==
    pc \in {"m_pre_prompt", "m_context", "gc_load", "gc_defaults", "gc_extra", "gc_return",
            "gc_done", "m_prompt", "pfc_start", "pfc_loop", "pfc_done", "m_generate"}
        \/ InGenerateFiles
C17_TemplateDirOutlivesGeneration ==
    (caller = "cookiecutter" /\ cleanup /\ BeforeCleanup) => RepoDir \in dirs


\* C22: a run of cookiecutter() with replay and no_input, or with replay
\* and a non-empty extra context, never reaches generate_files and writes
\* nothing.
NonEmptyDict(v) == IsDict(v) /\ v.ks # <<>>
C22_ReplayExcludesNoInputAndExtraContext ==
    (caller = "cookiecutter" /\ replay /\ (no_input \/ NonEmptyDict(extra_context)))
        => ~InGenerateFiles /\ project_dir = NoPath /\ written = {}


\* a value as the resolver leaves it: not a list of options, and a string
\* without template expressions
IsResolved(v) ==
    /\ ~IsList(v)
    /\ v.t = "s" => \A i \in DOMAIN v.s : "lit" \in DOMAIN v.s[i]

\* C26: in a run of cookiecutter() without replay, no_input or not, the
\* context that generate_files works on holds a resolved value, never the
\* raw manifest value, for every variable.
C26_GenerationSeesResolvedVariables ==
    (caller = "cookiecutter" /\ ~replay /\ InGenerateFiles)
        => \A k \in Range(Get(context, "cookiecutter").ks) :
              ~IsMetaKey(k) => IsResolved(Get(Get(context, "cookiecutter"), k))


\* what is under the template directory
UnderRepo(paths) == {q \in paths : IsPrefix(RepoDir, q)}

====
